---------------------------- MODULE Spec2Model ----------------------------
(***************************************************************************)
(* X3DH + Double Ratchet proof of concept (signal_protocol_poc).           *)
(*                                                                         *)
(* Cryptography is symbolic.  A 32-byte value is a term, written as a flat *)
(* sequence of integers in prefix form, so that two values are equal iff   *)
(* they were computed the same way from the same inputs (HKDF, HMAC and    *)
(* the AEAD are collision free, X25519 is commutative).  A key pair is the *)
(* integer that names its scalar; the public key of scalar k is named k    *)
(* too, and the position in which the integer is used tells which half is  *)
(* meant.  Freshly generated key pairs (OsRng) are new integers.           *)
(***************************************************************************)
EXTENDS Integers, Sequences, FiniteSets, TLC

\* ------------------------------------------------------------- bounds ---
MaxSends == 4          \* send_message calls in one behaviour
NumOPK == 2            \* one-time pre-keys in each user's pool
MaxScalar == 3         \* scalars the X3DH inputs are drawn from
MaxAnySends == 3       \* send_message calls in one behaviour of Spec
MaxReplays == 1        \* envelopes handed to receive_message a second time
MaxCorrupt == 2        \* envelopes whose ciphertext is corrupted on the way
MaxHandshakeSends == 2 \* send_message calls in one behaviour of SpecHandshake

\* -------------------------------------------------- program constants ---
TagDH == 1001              \* an X25519 shared secret
TagHKDF == 1002            \* an HKDF-SHA256 output
TagHMAC == 1003            \* an HMAC-SHA256 output
InfoX3dhSession == 1011    \* b"x3dh-session"
InfoRoot == 1012           \* b"double-ratchet-root"
InfoCkSend == 1013         \* b"ratchet-ck-send"
InfoCkRecv == 1014         \* b"ratchet-ck-recv"
InfoRk == 1015             \* b"double-ratchet-rk"
CtxMsgKey == 1016          \* b"msg_key"
CtxCk == 1017              \* b"ck"
ZeroPoint == 0             \* [0u8; 32]
FirstFresh == 100          \* first scalar OsRng hands out after User::new
U32Max == -1               \* u32::MAX, as the 32-bit integer with its bits

None == -1                 \* Option::None of an Option<[u8; 32]>
NoSalt == <<None>>         \* Hkdf::new(None, ..)

Min(a, b) == IF a <= b THEN a ELSE b
Max(a, b) == IF a <= b THEN b ELSE a

\* ------------------------------------------------------- crypto_utils ---
\* X25519: DH(a, pub(b)) = DH(b, pub(a)); the all-zero point gives the
\* all-zero secret whatever the scalar.
diffie_hellman(private, public) ==
    IF public = ZeroPoint THEN <<TagDH, ZeroPoint, ZeroPoint>>
    ELSE <<TagDH, Min(private, public), Max(private, public)>>

\* Hkdf::<Sha256>::new(salt, ikm).expand(info)
hkdf_expand(salt, ikm, info) ==
    <<TagHKDF, info, Len(salt), Len(ikm)>> \o salt \o ikm

\* Hmac::<Sha256>::new_from_slice(key).update(ctx).finalize()
hmac(key, ctx) == <<TagHMAC, ctx, Len(key)>> \o key

derive_session_key(dh_results) == hkdf_expand(NoSalt, dh_results, InfoX3dhSession)

derive_root_key(session_key) == hkdf_expand(NoSalt, session_key, InfoRoot)

\* (sending chain, receiving chain), both at index 0
derive_initial_chain_keys(root_key) ==
    << [key |-> hkdf_expand(NoSalt, root_key, InfoCkSend), index |-> 0],
       [key |-> hkdf_expand(NoSalt, root_key, InfoCkRecv), index |-> 0] >>

\* ChaCha20-Poly1305 with a random nonce: the ciphertext opens only under
\* the key and nonce it was sealed with, and only while its bytes are intact.
encrypt_chacha20(key, plaintext, nonce) ==
    [k |-> key, n |-> nonce, p |-> plaintext, intact |-> TRUE]

decrypt_chacha20(key, nonce, ciphertext) ==
    IF ciphertext.intact /\ ciphertext.k = key /\ ciphertext.n = nonce
    THEN ciphertext.p ELSE None

\* --------------------------------------------------------------- x3dh ---
\* Initiator: DH1 || DH2 || DH3 [|| DH4]; opk_receiver = None when absent.
create_session_key(ik_initiator, ek_initiator, spk_receiver, ik_receiver, opk_receiver) ==
    LET dh1 == diffie_hellman(ik_initiator, spk_receiver)
        dh2 == diffie_hellman(ek_initiator, ik_receiver)
        dh3 == diffie_hellman(ek_initiator, spk_receiver)
        ikm == dh1 \o dh2 \o dh3
    IN  IF opk_receiver # None
        THEN derive_session_key(ikm \o diffie_hellman(ek_initiator, opk_receiver))
        ELSE derive_session_key(ikm)

\* A responder that concatenates DH2 and DH3 in the other order.
receive_session_key_swapped(receiver_ik, receiver_spk, receiver_opk, sender_ik_public, sender_ek_public) ==
    LET dh1 == diffie_hellman(receiver_spk, sender_ik_public)
        dh2 == diffie_hellman(receiver_ik, sender_ek_public)
        dh3 == diffie_hellman(receiver_spk, sender_ek_public)
        dh4 == diffie_hellman(receiver_opk, sender_ek_public)
    IN  derive_session_key(dh1 \o dh3 \o dh2 \o dh4)

\* Responder: always four DHs, the one-time pre-key is not optional.
receive_session_key(receiver_ik, receiver_spk, receiver_opk, sender_ik_public, sender_ek_public) ==
    LET dh1 == diffie_hellman(receiver_spk, sender_ik_public)
        dh2 == diffie_hellman(receiver_ik, sender_ek_public)
        dh3 == diffie_hellman(receiver_spk, sender_ek_public)
        dh4 == diffie_hellman(receiver_opk, sender_ek_public)
    IN  derive_session_key(dh1 \o dh2 \o dh3 \o dh4)


\* --------------------------------------------------------------- keys ---
RatchetKey(k) == [private |-> k, public |-> k]

\* A u32 is held as the 32-bit integer with the same bits: 0 .. 2^31 - 1 as
\* themselves and 2^31 .. 2^32 - 1 as -2^31 .. -1, so that u32::MAX is -1.
\* The bits of i + 1:
u32_succ(i) == IF i = 2147483647 THEN -2147483647 - 1 ELSE i + 1

\* a < b between two u32
u32_lt(a, b) == IF (a < 0) = (b < 0) THEN a < b ELSE b < 0

\* ChainKey::derive_next: (next chain key, message key).  self.index + 1
\* overflows at u32::MAX: a build with overflow checks panics there, one
\* without wraps to 0; overflow tells that this happened.
derive_next(ck) ==
    [next |-> [key |-> hmac(ck.key, CtxCk), index |-> u32_succ(ck.index)],
     mk   |-> [key |-> hmac(ck.key, CtxMsgKey), index |-> ck.index],
     overflow |-> ck.index = U32Max]

\* OneTimePreKeyGroupPublic::use_key: the first key of the group, which
\* stays in the group.
use_key(keys) == IF keys # <<>> THEN keys[1] ELSE None

\* OneTimePreKeyGroup::get_by_public_key: the scalar of the pool whose
\* public is pubkey, None when there is none.
get_by_public_key(keys, pubkey) ==
    IF \E i \in 1..Len(keys) : keys[i] = pubkey THEN pubkey ELSE None

\* ----------------------------------------------------- double_ratchet ---
\* A constructor that drops the remote ratchet public it is given.
RatchetState_new_absent(root_key, dhs, dhr, is_initiator) ==
    LET cks == derive_initial_chain_keys(root_key)
    IN  [root_key |-> root_key,
         sending_chain   |-> IF is_initiator THEN cks[1] ELSE cks[2],
         receiving_chain |-> IF is_initiator THEN cks[2] ELSE cks[1],
         dhs |-> dhs,
         dhr |-> None,
         last_dhs_private_used |-> None]

RatchetState_new(root_key, dhs, dhr, is_initiator) ==
    LET cks == derive_initial_chain_keys(root_key)
    IN  [root_key |-> root_key,
         sending_chain   |-> IF is_initiator THEN cks[1] ELSE cks[2],
         receiving_chain |-> IF is_initiator THEN cks[2] ELSE cks[1],
         dhs |-> dhs,
         dhr |-> dhr,
         last_dhs_private_used |-> None]

\* A ratchet step that forgets to replace the root key.
dh_ratchet_stale_root(root_key, dh_output) ==
    [rk |-> root_key,
     ck |-> hkdf_expand(root_key, dh_output, InfoCkSend)]

\* Hkdf::new(Some(root_key), dh_output) expanded twice: the new root key and
\* the new chain key, the latter with "ratchet-ck-send" in both directions.
dh_ratchet(root_key, dh_output) ==
    [rk |-> hkdf_expand(root_key, dh_output, InfoRk),
     ck |-> hkdf_expand(root_key, dh_output, InfoCkSend)]

\* The two optional fields of the envelope.  send_message hands used_opk and
\* used_ek to encrypt (user/mod.rs:109-115) and EncryptedMessage declares
\* opk_used and ek_used; the encrypt that stores them is not part of the
\* sources, so the fields are taken to hold what the caller passes.
handshake_fields(used_opk, used_ek) == [opk_used |-> used_opk, ek_used |-> used_ek]

\* An encrypt that installs the new chain in both directions.
send_step_both(self, rk, chain) ==
    [self EXCEPT !.root_key = rk, !.sending_chain = chain, !.receiving_chain = chain]

\* What encrypt assigns: self.root_key and self.sending_chain, the chain as
\* derive_next leaves it.
send_step(self, rk, chain) == [self EXCEPT !.root_key = rk, !.sending_chain = chain]

\* RatchetState::encrypt.  Every call mixes DH(dhs, dhr) into the root key
\* and installs a sending chain at index 0; dhs is not replaced.  An absent
\* dhr makes the unwrap panic.
encrypt(self, plaintext, sender, receiver, used_opk, used_ek, nonce) ==
    IF self.dhr = None
    THEN [panic |-> TRUE, st |-> self, key |-> <<>>, overflow |-> FALSE, msg |-> <<>>]
    ELSE
    LET dh_output == diffie_hellman(self.dhs.private, self.dhr)
        step  == dh_ratchet(self.root_key, dh_output)
        chain == [key |-> step.ck, index |-> 0]
        nx    == derive_next(chain)
        index == chain.index
    IN  [panic |-> FALSE,
         st  |-> send_step(self, step.rk, nx.next),
         key |-> nx.mk.key,
         overflow |-> nx.overflow,
         msg |-> [sender |-> sender,
                  receiver |-> receiver,
                  nonce |-> nonce,
                  ciphertext |-> encrypt_chacha20(nx.mk.key, plaintext, nonce),
                  ratchet_pub |-> self.dhs.public,
                  message_index |-> index,
                  opk_used |-> handshake_fields(used_opk, used_ek).opk_used,
                  ek_used |-> handshake_fields(used_opk, used_ek).ek_used]]

\* A receiver that uses the pair it has just generated.
recv_dh_private_current(self) == self.dhs.private

\* self.last_dhs_private_used.unwrap_or(self.dhs.private)
recv_dh_private(self) ==
    IF self.last_dhs_private_used # None
    THEN self.last_dhs_private_used ELSE self.dhs.private

\* while self.receiving_chain.index < msg.message_index { derive_next }
RECURSIVE advance_to(_, _)
advance_to(ck, message_index) ==
    IF u32_lt(ck.index, message_index)
    THEN advance_to(derive_next(ck).next, message_index) ELSE ck

\* A decrypt that restores the state it started from when the AEAD fails.
commit_rollback(self, st, out) == IF out = None THEN self ELSE st

\* The state decrypt leaves behind: the match on the AEAD result only
\* builds the return value, what was assigned before stays assigned.
commit(self, st, out) == st

\* The message keys a RatchetState holds for envelopes that have not arrived:
\* the struct has the root key, the two chains, dhs, dhr and
\* last_dhs_private_used, and no field for such keys.
skipped(self) == {}

\* A receiver that keeps its ratchet key pair.
new_dhs_kept(self, fresh) == self.dhs

\* self.dhs = RatchetKey::new() on a new remote ratchet public
new_dhs(self, fresh) == RatchetKey(fresh)

\* RatchetState::decrypt; fresh is the scalar RatchetKey::new() draws.
\* Both branches mix a DH output into the root key and install a receiving
\* chain at the envelope's index.
decrypt(self, msg, fresh) ==
    LET is_new_dhr == self.dhr = None \/ self.dhr # msg.ratchet_pub
        s1 == IF is_new_dhr
              THEN [self EXCEPT !.dhr = msg.ratchet_pub,
                                !.last_dhs_private_used = self.dhs.private,
                                !.dhs = new_dhs(self, fresh)]
              ELSE self
        dh_output == diffie_hellman(recv_dh_private(s1), msg.ratchet_pub)
        step  == dh_ratchet(s1.root_key, dh_output)
        chain == advance_to([key |-> step.ck, index |-> msg.message_index],
                            msg.message_index)
        nx    == derive_next(chain)
        out   == decrypt_chacha20(nx.mk.key, msg.nonce, msg.ciphertext)
    IN  [st  |-> commit(self, [s1 EXCEPT !.root_key = step.rk,
                                         !.receiving_chain = nx.next], out),
         new_dhr |-> is_new_dhr,
         overflow |-> nx.overflow,
         key |-> nx.mk.key,
         out |-> out]


\* --------------------------------------------------------------- user ---
Users == {"A", "B", "C"}
Pair == {"A", "B"}
Plaintexts == {1, 2}

\* User::new draws an identity key, a signed pre-key and a pool of one-time
\* pre-keys; "M" owns key material but runs no User of this program.
UserIx == [A |-> 1, B |-> 2, C |-> 3, M |-> 9]
IkOf(u) == 10 * UserIx[u] + 1
SpkOf(u) == 10 * UserIx[u] + 2
OpkOf(u) == [j \in 1..NumOPK |-> 10 * UserIx[u] + 2 + j]

\* SignedPreKey::new signs the pre-key public with the owner's identity key.
SpkSigner(spk) ==
    IF \E u \in DOMAIN UserIx : SpkOf(u) = spk
    THEN IkOf(CHOOSE u \in DOMAIN UserIx : SpkOf(u) = spk) ELSE None

\* Ed25519 verification of the pre-key signature under an identity key.
\* No operation of the program calls it.
verify_spk(ik, spk) == SpkSigner(spk) = ik

VARIABLES
    opk,        \* opk[u]: User.opk, the pool of one-time pre-key scalars
    sessions,   \* sessions[u]: User.sessions, peer id -> RatchetState
    nextKey,    \* the next scalar OsRng generates
    sent,       \* every envelope send_message returned, in order
    pending,    \* indices of sent not yet handed to receive_message
    log,        \* history: one record per send_message / receive_message call
    x3dh,       \* inputs and outputs of a stand-alone X3DH computation
    snap        \* the state of one user as disclosed at one moment

vars == <<opk, sessions, nextKey, sent, pending, log, x3dh, snap>>

NoSnap == [taken |-> FALSE, user |-> "", at |-> 0, ik |-> None,
           spk |-> None, opk |-> <<>>, sessions |-> <<>>]

NoX3dh == [phase |-> "off", ik_i |-> 0, ek_i |-> 0, ik_r |-> 0, spk_r |-> 0,
           opk_r |-> 0, sk_i |-> <<>>, sk_r |-> <<>>]

Init ==
    /\ opk = [u \in Users |-> OpkOf(u)]
    /\ sessions = [u \in Users |-> <<>>]
    /\ nextKey = FirstFresh
    /\ sent = <<>>
    /\ pending = {}
    /\ log = <<>>
    /\ x3dh = NoX3dh
    /\ snap = NoSnap

\* User::public_info
public_info(u) ==
    [id |-> u, name |-> u, ik |-> IkOf(u), spk |-> SpkOf(u), opk |-> opk[u]]

\* A panic unwinds out of the call and ends the program.
Crashed == log # <<>> /\ log[Len(log)].out = "panic"

HasSession(u, p) == p \in DOMAIN sessions[u]

\* A directory that takes no entry.
insert_dropped(map, key, st) == map

\* A directory that holds one session only.
insert_alone(map, key, st) == key :> st

\* The directory after the call: the entry for key holds the state the call
\* left, every other entry is as it was.
insert(map, key, st) == (key :> st) @@ map

\* A directory that builds a new session on every call.
or_insert_always(map, key, fresh) == fresh

\* self.sessions.entry(key).or_insert_with(|| fresh): the session the map
\* holds for key, the newly built one only when it holds none.
or_insert_with(map, key, fresh) == IF key \in DOMAIN map THEN map[key] ELSE fresh

\* A sender that names the handshake keys in every envelope.
used_fields_always(exists, opk_to, ek) == [opk |-> opk_to, ek |-> ek]

\* used_opk and used_ek start as None and are set only inside the closure
\* that builds a new session.
used_fields(exists, opk_to, ek) ==
    [opk |-> IF exists THEN None ELSE opk_to, ek |-> IF exists THEN None ELSE ek]

\* User::send_message(to, plaintext)
send_message(u, to, plaintext) ==
    LET exists == HasSession(u, to.id)
        ek     == nextKey
        dhs    == nextKey + 1
        opk_to == use_key(to.opk)
        session == create_session_key(IkOf(u), ek, to.spk, to.ik, opk_to)
        ratchet == or_insert_with(sessions[u], to.id,
                       RatchetState_new(derive_root_key(session), RatchetKey(dhs),
                                        to.spk, TRUE))
        used_opk == used_fields(exists, opk_to, ek).opk
        used_ek  == used_fields(exists, opk_to, ek).ek
        r == encrypt(ratchet, plaintext, u, to.name, used_opk, used_ek, Len(sent) + 1)
    IN  /\ sessions' = [sessions EXCEPT ![u] = insert(sessions[u], to.id, r.st)]
        /\ nextKey' = IF exists THEN nextKey ELSE nextKey + 2
        /\ sent' = IF r.panic THEN sent ELSE Append(sent, r.msg)
        /\ pending' = IF r.panic THEN pending ELSE pending \cup {Len(sent) + 1}
        /\ log' = Append(log,
              [op |-> "send", user |-> u, peer |-> to.id,
               had_session |-> exists, created |-> ~exists,
               sig_ok |-> verify_spk(to.ik, to.spk), opk |-> used_opk,
               env |-> Len(sent) + 1, genuine |-> TRUE, replay |-> FALSE,
               key |-> r.key, text |-> plaintext, msg |-> r.msg,
               index_before |-> ratchet.sending_chain.index,
               offered |-> to.opk # <<>>,
               new_dhr |-> FALSE,
               overflow |-> r.overflow,
               skipped_after |-> Cardinality(skipped(r.st)),
               out |-> IF r.panic THEN "panic" ELSE "sent"])
        /\ UNCHANGED <<opk, x3dh, snap>>

\* User::receive_message(from, msg); env is the index of msg in sent,
\* genuine tells whether msg is sent[env] unmodified, replay whether sent[env]
\* had been handed to this user before.
receive_message(u, from, msg, env, genuine, replay) ==
    LET exists == HasSession(u, from.id)
        opk_found == IF msg.opk_used = None THEN None
                     ELSE get_by_public_key(opk[u], msg.opk_used)
        ek == IF msg.ek_used = None THEN ZeroPoint ELSE msg.ek_used
        session == receive_session_key(IkOf(u), SpkOf(u), opk_found, from.ik, ek)
        ratchet == or_insert_with(sessions[u], from.id,
                       RatchetState_new(derive_root_key(session),
                                        RatchetKey(SpkOf(u)), None, FALSE))
        r == decrypt(ratchet, msg, nextKey)
        entry == [op |-> "recv", user |-> u, peer |-> from.id,
                  had_session |-> exists, created |-> ~exists,
                  sig_ok |-> TRUE, opk |-> IF exists THEN None ELSE opk_found,
                  env |-> env, genuine |-> genuine, replay |-> replay,
                  key |-> r.key, text |-> r.out, msg |-> msg,
                  index_before |-> ratchet.receiving_chain.index,
                  offered |-> FALSE,
                  new_dhr |-> r.new_dhr,
                  overflow |-> r.overflow,
                  skipped_after |-> Cardinality(skipped(r.st)),
                  out |-> IF r.out = None THEN "none" ELSE "plain"]
        unwrap_none == ~exists /\ opk_found = None
    IN  \/ \* .unwrap() on None inside or_insert_with, or the overflow of
           \* self.index + 1 in a build that checks it: the call panics
           /\ unwrap_none \/ r.overflow
           /\ log' = Append(log, [entry EXCEPT !.created = FALSE, !.key = <<>>,
                                               !.new_dhr = FALSE,
                                               !.overflow = ~unwrap_none,
                                               !.text = None, !.out = "panic"])
           /\ UNCHANGED <<opk, sessions, nextKey, x3dh, snap>>
        \/ \* the call returns; an overflow has wrapped
           /\ ~unwrap_none
           /\ sessions' = [sessions EXCEPT ![u] = insert(sessions[u], from.id, r.st)]
           /\ nextKey' = IF r.new_dhr THEN nextKey + 1 ELSE nextKey
           /\ log' = Append(log, entry)
           /\ UNCHANGED <<opk, x3dh, snap>>

\* -------------------------------------------------------- environment ---
NumSends == Cardinality({i \in 1..Len(log) : log[i].op = "send"})

\* No envelope addressed to u is still undelivered.
Quiet(u) == \A i \in pending : sent[i].receiver # u

\* i is the oldest undelivered envelope of its direction.
Oldest(i) ==
    \A j \in pending :
        (sent[j].sender = sent[i].sender /\ sent[j].receiver = sent[i].receiver) => i <= j

\* u sends plaintext to the honest bundle of p.
Send(u, p, plaintext) ==
    /\ ~Crashed
    /\ u # p
    /\ NumSends < MaxSends
    /\ send_message(u, public_info(p), plaintext)

\* The envelope sent[i] reaches its receiver, unmodified, for the first time.
Deliver(i) ==
    /\ ~Crashed
    /\ i \in pending
    /\ pending' = pending \ {i}
    /\ UNCHANGED sent
    /\ receive_message(sent[i].receiver, public_info(sent[i].sender), sent[i],
                       i, TRUE, FALSE)

SendQuiet(u, p, plaintext) == Quiet(u) /\ Send(u, p, plaintext)

DeliverNext(i) == Oldest(i) /\ Deliver(i)

\* In-order, loss-free, unmodified delivery between two users who never send
\* while an envelope addressed to them is under way.
NextInOrder ==
    \/ \E u \in Pair, p \in Pair, t \in Plaintexts : SendQuiet(u, p, t)
    \/ \E i \in 1..Len(sent) : DeliverNext(i)

SpecInOrder == Init /\ [][NextInOrder]_vars


\* The envelope sent[i], already delivered once, reaches its receiver again.
Replay(i) ==
    /\ ~Crashed
    /\ i \in 1..Len(sent) /\ i \notin pending
    /\ Cardinality({n \in 1..Len(log) : log[n].replay}) < MaxReplays
    /\ UNCHANGED <<sent, pending>>
    /\ receive_message(sent[i].receiver, public_info(sent[i].sender), sent[i],
                       i, TRUE, TRUE)

\* The oldest undelivered envelope of a direction reaches its receiver with
\* a corrupted ciphertext, in place of the original.
DeliverCorrupted(i) ==
    /\ ~Crashed
    /\ i \in pending /\ Oldest(i)
    /\ Cardinality({n \in 1..Len(log) : ~log[n].genuine}) < MaxCorrupt
    /\ pending' = pending \ {i}
    /\ UNCHANGED sent
    /\ receive_message(sent[i].receiver, public_info(sent[i].sender),
                       [sent[i] EXCEPT !.ciphertext.intact = FALSE], i, FALSE, FALSE)

\* The second-oldest undelivered envelope of a direction overtakes the
\* oldest one, both coming from the same sending chain of the sender.
DeliverSecond(i) ==
    /\ \E j \in pending :
          /\ j < i /\ Oldest(j)
          /\ sent[j].sender = sent[i].sender /\ sent[j].receiver = sent[i].receiver
          /\ sent[j].ratchet_pub = sent[i].ratchet_pub
          /\ \A k \in pending :
                (k # j /\ sent[k].sender = sent[i].sender
                       /\ sent[k].receiver = sent[i].receiver) => i <= k
    /\ Deliver(i)

\* Any interleaving of sends, deliveries in any order and replays.  The
\* plaintext plays no part in the key schedule and is fixed here.
Next ==
    \/ \E u \in Pair, p \in Pair : NumSends < MaxAnySends /\ Send(u, p, 1)
    \/ \E i \in 1..Len(sent) : Deliver(i)
    \/ \E i \in 1..Len(sent) : Replay(i)

Spec == Init /\ [][Next]_vars

\* Users may send while envelopes addressed to them are under way; each
\* direction is delivered in order, once, unmodified.
NextCrossing ==
    \/ \E u \in Pair, p \in Pair, t \in Plaintexts : Send(u, p, t)
    \/ \E i \in 1..Len(sent) : DeliverNext(i)

SpecCrossing == Init /\ [][NextCrossing]_vars

\* In-order traffic in which an envelope may overtake its predecessor.
NextReorder ==
    \/ \E u \in Pair, p \in Pair, t \in Plaintexts : SendQuiet(u, p, t)
    \/ \E i \in 1..Len(sent) : DeliverNext(i)
    \/ \E i \in 1..Len(sent) : DeliverSecond(i)

SpecReorder == Init /\ [][NextReorder]_vars

\* In-order traffic in which the ciphertext of an envelope may be corrupted.
NextCorrupt ==
    \/ \E u \in Pair, p \in Pair, t \in Plaintexts : SendQuiet(u, p, t)
    \/ \E i \in 1..Len(sent) : DeliverNext(i)
    \/ \E i \in 1..Len(sent) : DeliverCorrupted(i)

SpecCorrupt == Init /\ [][NextCorrupt]_vars

\* The bundles a sender may be handed for peer p: the one p publishes, one
\* without one-time pre-keys, one with a one-time pre-key p does not hold,
\* and one whose signed pre-key was signed by another identity.
Bundles(p) ==
    { public_info(p),
      [public_info(p) EXCEPT !.opk = <<>>],
      [public_info(p) EXCEPT !.opk = <<OpkOf("M")[1]>>],
      [public_info(p) EXCEPT !.spk = SpkOf("M")] }

SendBundle(u, to, plaintext) ==
    /\ ~Crashed
    /\ u # to.id
    /\ NumSends < MaxHandshakeSends
    /\ send_message(u, to, plaintext)

\* First contacts among three users, with every kind of bundle.
NextHandshake ==
    \/ \E u \in Users, p \in Users : \E to \in Bundles(p) : SendBundle(u, to, 1)
    \/ \E i \in 1..Len(sent) : DeliverNext(i)

SpecHandshake == Init /\ [][NextHandshake]_vars

\* ------------------------------------------------- stand-alone X3DH -----
Scalars == 1..MaxScalar

InitX3DH ==
    /\ opk = [u \in Users |-> OpkOf(u)]
    /\ sessions = [u \in Users |-> <<>>]
    /\ nextKey = FirstFresh
    /\ sent = <<>>
    /\ pending = {}
    /\ log = <<>>
    /\ snap = NoSnap
    /\ \E ik_i \in Scalars, ek_i \in Scalars, ik_r \in Scalars,
          spk_r \in Scalars, opk_r \in Scalars :
          x3dh = [NoX3dh EXCEPT !.phase = "in", !.ik_i = ik_i, !.ek_i = ek_i,
                                !.ik_r = ik_r, !.spk_r = spk_r, !.opk_r = opk_r]

\* The initiator computes from its scalars and the responder's publics, the
\* responder from its scalars and the initiator's publics.
X3dhAgree ==
    /\ x3dh.phase = "in"
    /\ x3dh' = [x3dh EXCEPT
                  !.phase = "out",
                  !.sk_i = create_session_key(x3dh.ik_i, x3dh.ek_i, x3dh.spk_r,
                                              x3dh.ik_r, x3dh.opk_r),
                  !.sk_r = receive_session_key(x3dh.ik_r, x3dh.spk_r, x3dh.opk_r,
                                               x3dh.ik_i, x3dh.ek_i)]
    /\ UNCHANGED <<opk, sessions, nextKey, sent, pending, log, snap>>

NextX3DH == X3dhAgree

SpecX3DH == InitX3DH /\ [][NextX3DH]_vars

\* ------------------------------------------------------------ claims ----
Recvs == {n \in 1..Len(log) : log[n].op = "recv"}
Sends == {n \in 1..Len(log) : log[n].op = "send"}

\* The call log[n] returned the plaintext that was given to the send_message
\* call which produced the envelope it was handed.
Recovered(n) ==
    /\ log[n].out = "plain"
    /\ log[n].text = sent[log[n].env].ciphertext.p

\* C1: with in-order, exactly-once, unmodified delivery and no user sending
\* while an envelope addressed to it is undelivered, every receive_message
\* returns exactly the plaintext given to the matching send_message.
C1_InOrderRoundTrip == \A n \in Recvs : Recovered(n)

\* A first message that created both sessions, a reply in the other
\* direction and two consecutive sends of one user have all been received.
C1_Witness ==
    /\ pending = {}
    /\ \E n \in Recvs : log[n].created /\ log[n].user = "B" /\ Recovered(n)
    /\ \E n \in Recvs : ~log[n].created /\ log[n].user = "A" /\ Recovered(n)
    /\ \E n \in Sends : /\ n + 1 \in Sends
                        /\ log[n].user = log[n + 1].user
                        /\ \E m \in Recvs : log[m].env = log[n + 1].env /\ Recovered(m)

\* C4: on matched inputs create_session_key and receive_session_key return
\* the same session key.
C4_X3dhAgreement == x3dh.phase = "out" => x3dh.sk_i = x3dh.sk_r

\* Both sides have computed a key from pairwise distinct key pairs.
C4_Witness ==
    /\ x3dh.phase = "out"
    /\ Cardinality({x3dh.ik_i, x3dh.ek_i, x3dh.ik_r}) = 3
    /\ x3dh.spk_r # x3dh.ik_r
    /\ x3dh.sk_i = derive_session_key(
           diffie_hellman(x3dh.ik_i, x3dh.spk_r) \o diffie_hellman(x3dh.ek_i, x3dh.ik_r)
           \o diffie_hellman(x3dh.ek_i, x3dh.spk_r) \o diffie_hellman(x3dh.ek_i, x3dh.opk_r))


\* Users that created their session with the peer through send_message.
Initiators == {log[n].user : n \in {m \in Sends : log[m].created}}

\* C2: in any established session, after any prior sends and receives by
\* either user (messages may cross on the wire; each direction is delivered
\* once, unmodified and in order), receive_message returns the plaintext of
\* the envelope.
C2_RoundTripCrossing ==
    Cardinality(Initiators) <= 1 =>
        \A n \in Recvs : log[n].had_session => Recovered(n)

\* Envelope j of the log entry m directly follows envelope i of entry n on
\* one sending chain of one sender.
SameChainPair(n, m) ==
    /\ sent[log[n].env].sender = sent[log[m].env].sender
    /\ sent[log[n].env].ratchet_pub = sent[log[m].env].ratchet_pub
    /\ log[m].env = log[n].env + 1
    /\ \E a \in Sends : /\ a + 1 \in Sends
                        /\ log[a].env = log[n].env
                        /\ log[a + 1].env = log[m].env

\* C3: two envelopes sent consecutively by one user on the same sending
\* chain are both decrypted to their plaintexts, whichever of the two is
\* handed to receive_message first.
C3_EitherOrder ==
    \A n \in Recvs, m \in Recvs :
        (SameChainPair(n, m) /\ log[n].had_session /\ log[m].had_session)
            => Recovered(n) /\ Recovered(m)

Opened == {n \in Recvs : log[n].out = "plain"}

\* C5: no two successful decryptions use the same message key, and an
\* envelope whose plaintext receive_message has returned is not decrypted
\* when it is handed to the same user again.
C5_KeyUsedOnce ==
    /\ \A n \in Opened, m \in Opened : n # m => log[n].key # log[m].key
    /\ \A n \in Recvs :
          (log[n].replay /\ \E m \in Opened : m < n /\ log[m].env = log[n].env
                                                    /\ log[m].user = log[n].user)
              => log[n].out = "none"

\* A successfully received envelope was handed over again and refused,
\* once for a first-message envelope and once for a later one.
C5_Witness ==
    \E n \in Recvs :
        /\ log[n].replay /\ log[n].out = "none"
        /\ sent[log[n].env].opk_used # None
        /\ \E m \in Opened : m < n /\ log[m].env = log[n].env

C5_WitnessLater ==
    \E n \in Recvs :
        /\ log[n].replay /\ log[n].out = "none"
        /\ sent[log[n].env].opk_used = None
        /\ \E m \in Opened : m < n /\ log[m].env = log[n].env

\* Successful responder-side handshakes: receive_message created the session
\* and returned the plaintext of the first envelope.
Handshakes == {n \in Recvs : log[n].created /\ Recovered(n)}

\* C6: a one-time pre-key scalar of a user is used in exactly one
\* successful responder-side handshake.
C6_OpkUsedOnce ==
    \A n \in Handshakes, m \in Handshakes :
        (n # m /\ log[n].user = log[m].user) => log[n].opk # log[m].opk

\* C7: no session is created from a bundle whose signed pre-key does not
\* verify under the advertised identity key: the handshake returns
\* InvalidPreKeyBundle instead.
C7_SpkVerified ==
    \A n \in Sends :
        (~log[n].had_session /\ ~log[n].sig_ok)
            => (log[n].out = "InvalidPreKeyBundle" /\ ~log[n].created)

\* The envelope handed to the call log[n] names a one-time pre-key that is
\* not in the receiver's pool.
UnknownOpk(n) ==
    /\ sent[log[n].env].opk_used # None
    /\ get_by_public_key(opk[log[n].user], sent[log[n].env].opk_used) = None

\* C8: a first envelope naming an unknown one-time pre-key makes
\* receive_message return the error UnknownOneTimePreKey; no session is
\* created.
C8_UnknownOpkError ==
    \A n \in Recvs :
        (~log[n].had_session /\ UnknownOpk(n))
            => (log[n].out = "UnknownOneTimePreKey" /\ ~log[n].created
                /\ ~HasSession(log[n].user, log[n].peer))

\* C9: a first envelope of a handshake without one-time pre-key (opk_used
\* absent, ek_used present) is decrypted by the peer to its plaintext.
C9_NoOpkHandshake ==
    \A n \in Recvs :
        (/\ ~log[n].had_session
         /\ sent[log[n].env].opk_used = None
         /\ sent[log[n].env].ek_used # None)
            => Recovered(n)

\* C10: an envelope delivered with a corrupted ciphertext is reported as a
\* decryption failure, and the envelopes the same sender produces are
\* received with their plaintexts afterwards.
C10_RecoveryAfterCorruption ==
    \A n \in Recvs :
        IF log[n].genuine THEN Recovered(n) ELSE log[n].out = "none"

\* A corrupted envelope was refused and the next envelope of the same
\* sender, produced after the refusal, was received.
C10_Witness ==
    \E n \in Recvs, m \in Recvs, a \in Sends :
        /\ ~log[n].genuine /\ log[n].out = "none"
        /\ n < a /\ a < m
        /\ log[a].env = log[m].env
        /\ log[m].user = log[n].user /\ log[m].peer = log[n].peer
        /\ Recovered(m)

\* The root key new was produced by a ratchet step from the root key old.
Extends(old, new) ==
    /\ Len(new) >= 4 + Len(old)
    /\ new[1] = TagHKDF /\ new[2] = InfoRk /\ new[3] = Len(old)
    /\ SubSeq(new, 5, 4 + Len(old)) = old

\* C11: once the directory of a user holds a session for a peer, every later
\* call keeps an entry for that peer and advances the state it held, by
\* ratchet steps from its root key; no call removes the entry or replaces it
\* with a state built from a new X3DH, whatever handshake fields the envelope
\* carries.
C11_SessionKept ==
    [][\A u \in Users : \A p \in DOMAIN sessions[u] :
          /\ p \in DOMAIN sessions'[u]
          /\ \/ sessions'[u][p] = sessions[u][p]
             \/ Extends(sessions[u][p].root_key, sessions'[u][p].root_key)]_vars

\* A user that already holds the session is handed an envelope that names
\* handshake keys, and a user that holds a session sends again.
C11_Witness ==
    /\ \E n \in Recvs : log[n].had_session /\ log[n].msg.ek_used # None
    /\ \E n \in Sends : log[n].had_session

\* The send_message calls that produced an envelope.
Sent == {n \in Sends : log[n].out = "sent"}

\* C12 as stated: an envelope names a one-time pre-key and an ephemeral key
\* exactly when the send_message call that produced it created the session.
C12_HandshakeFieldsOnFirst ==
    \A n \in Sent :
        /\ log[n].msg.opk_used # None <=> log[n].created
        /\ log[n].msg.ek_used # None <=> log[n].created

\* C12: an envelope names an ephemeral key exactly when the send_message
\* call that produced it created the session, and names a one-time pre-key
\* exactly when that call created the session from a bundle that offered
\* one; every other envelope has both fields absent.
C12_HandshakeFields ==
    \A n \in Sent :
        /\ log[n].msg.ek_used # None <=> log[n].created
        /\ log[n].msg.opk_used # None <=> (log[n].created /\ log[n].offered)

\* A session was created from a bundle without one-time pre-keys, and a later
\* envelope was sent on a session that existed.
C12_Witness ==
    /\ \E n \in Sent : log[n].created /\ ~log[n].offered
    /\ \E n \in Sent : log[n].had_session

\* log[n] and log[m] are consecutive calls of one user on one session.
NextOnSession(n, m) ==
    /\ n < m
    /\ log[n].user = log[m].user /\ log[n].peer = log[m].peer
    /\ \A k \in (n + 1)..(m - 1) :
          ~(log[k].user = log[n].user /\ log[k].peer = log[n].peer)

\* C13: of two consecutive send_message calls of a user to the same peer with
\* no receive_message from that peer in between, the second envelope carries
\* the message_index of the first plus one.
C13_MessageNumbering ==
    \A n \in Sent : \A m \in Sent :
        NextOnSession(n, m) =>
            log[m].msg.message_index = log[n].msg.message_index + 1

\* ------------------------------------------------ altered metadata -----
\* The per-epoch skip distance an implementation is to enforce.
MaxSkipPerEpoch == 1000

\* sent[i] with one metadata field altered, the ciphertext left as it was:
\* a ratchet public of somebody else, the next index, an index far ahead,
\* the largest index, no ephemeral key.
Altered(i) ==
    { [sent[i] EXCEPT !.ratchet_pub = SpkOf("M")],
      [sent[i] EXCEPT !.message_index = @ + 1],
      [sent[i] EXCEPT !.message_index = @ + MaxSkipPerEpoch + 1],
      [sent[i] EXCEPT !.message_index = U32Max],
      [sent[i] EXCEPT !.ek_used = None] } \ {sent[i]}

\* The oldest undelivered envelope of a direction reaches its receiver with
\* altered metadata, in place of the original.
DeliverAltered(i, msg) ==
    /\ ~Crashed
    /\ i \in pending /\ Oldest(i)
    /\ Cardinality({n \in 1..Len(log) : ~log[n].genuine}) < MaxCorrupt
    /\ pending' = pending \ {i}
    /\ UNCHANGED sent
    /\ receive_message(sent[i].receiver, public_info(sent[i].sender), msg,
                       i, FALSE, FALSE)

\* In-order traffic in which the metadata of an envelope may be altered.
NextAltered ==
    \/ \E u \in Pair, p \in Pair, t \in Plaintexts : SendQuiet(u, p, t)
    \/ \E i \in 1..Len(sent) : DeliverNext(i)
    \/ \E i \in 1..Len(sent) : \E msg \in Altered(i) : DeliverAltered(i, msg)

SpecAltered == Init /\ [][NextAltered]_vars

\* C14: a receive_message call handed an envelope whose ratchet_pub or
\* message_index was altered, the ciphertext untouched, returns no plaintext.
C14_AlteredMetadataRejected ==
    \A n \in Recvs : ~log[n].genuine => log[n].out = "none"

\* ---------------------------------------------------- any order --------
\* Two users who never send while an envelope addressed to them is under
\* way; the envelopes reach the receiver unmodified, once, in any order.
NextAnyOrder ==
    \/ \E u \in Pair, p \in Pair, t \in Plaintexts : SendQuiet(u, p, t)
    \/ \E i \in 1..Len(sent) : Deliver(i)

SpecAnyOrder == Init /\ [][NextAnyOrder]_vars

\* The consecutive calls log[a], log[b], log[c] of one user received, on a
\* session it held, the envelopes i + 2, i, i + 1 of three that its peer
\* sent one after the other.
ThirdFirst(a, b, c) ==
    /\ log[a].had_session /\ log[a].env = log[b].env + 2 /\ log[c].env = log[b].env + 1
    /\ NextOnSession(a, b) /\ NextOnSession(b, c)
    /\ \A i \in log[b].env .. log[a].env : sent[i].sender = log[a].peer

\* C15: when m1, m2, m3 are received as m3, m1, m2, all three decrypt, and
\* the receiver holds 2 skipped keys after m3, 1 after m1 and 0 after m2.
C15_SkippedBuffer ==
    \A a \in Recvs : \A b \in Recvs : \A c \in Recvs :
        ThirdFirst(a, b, c) =>
            /\ Recovered(a) /\ Recovered(b) /\ Recovered(c)
            /\ log[a].skipped_after = 2
            /\ log[b].skipped_after = 1
            /\ log[c].skipped_after = 0

\* C16: a receive_message call handed an envelope whose message_index lies
\* more than the per-epoch bound ahead of the receiving chain is refused
\* with TooManySkippedMessages.
C16_FarAheadRefused ==
    \A n \in Recvs :
        u32_lt(log[n].index_before + MaxSkipPerEpoch, log[n].msg.message_index)
            => log[n].out = "TooManySkippedMessages"

\* The step appends the call log'[Len(log')] to the history.
Called == Len(log') = Len(log) + 1

\* The last call of user u on its session with p was a send_message: u has
\* seen no envelope of p since it last sent.
SentLast(u, p) ==
    \E n \in Sends :
        /\ log[n].user = u /\ log[n].peer = p
        /\ \A k \in (n + 1)..Len(log) : ~(log[k].user = u /\ log[k].peer = p)

\* C19: a send_message on a session whose owner has observed no new remote
\* ratchet public since its previous send leaves the root key unchanged.
C19_OutboundRatchetTrigger ==
    [][Called =>
         LET call == log'[Len(log')]
         IN  (call.op = "send" /\ call.out = "sent" /\ SentLast(call.user, call.peer))
                 => sessions'[call.user][call.peer].root_key
                        = sessions[call.user][call.peer].root_key]_vars

\* C20: a receive_message on a held session, handed an envelope whose
\* ratchet_pub equals the stored DHr, leaves the root key and DHr unchanged.
C20_InboundRatchetTrigger ==
    [][Called =>
         LET call == log'[Len(log')]
         IN  (call.op = "recv" /\ call.had_session
                /\ call.msg.ratchet_pub = sessions[call.user][call.peer].dhr)
                 => /\ sessions'[call.user][call.peer].root_key
                          = sessions[call.user][call.peer].root_key
                    /\ sessions'[call.user][call.peer].dhr
                          = sessions[call.user][call.peer].dhr]_vars

\* ------------------------------------------------------ disclosure -----
\* The complete state of user u is disclosed, once: its identity, signed
\* pre-key and one-time pre-key scalars and every session it holds.
Disclose(u) ==
    /\ ~Crashed
    /\ ~snap.taken
    /\ snap' = [taken |-> TRUE, user |-> u, at |-> Len(log), ik |-> IkOf(u),
                spk |-> SpkOf(u), opk |-> opk[u], sessions |-> sessions[u]]
    /\ UNCHANGED <<opk, sessions, nextKey, sent, pending, log, x3dh>>

\* In-order traffic between two users, one of whom has its state disclosed.
NextDisclose ==
    \/ \E u \in Pair, p \in Pair, t \in Plaintexts : SendQuiet(u, p, t)
    \/ \E i \in 1..Len(sent) : DeliverNext(i)
    \/ \E u \in Pair : Disclose(u)

SpecDisclose == Init /\ [][NextDisclose]_vars

\* What the disclosure hands over: the scalars and the keys in snap.  Every
\* public key and every envelope is known anyway.
KnownScalars ==
    ({snap.ik, snap.spk}
        \cup {snap.opk[i] : i \in 1..Len(snap.opk)}
        \cup {snap.sessions[p].dhs.private : p \in DOMAIN snap.sessions}
        \cup {snap.sessions[p].last_dhs_private_used : p \in DOMAIN snap.sessions})
    \ {None}

KnownKeys ==
    UNION {{snap.sessions[p].root_key, snap.sessions[p].sending_chain.key,
            snap.sessions[p].receiving_chain.key} : p \in DOMAIN snap.sessions}

\* The key t can be computed from the disclosed state and the wire: it was
\* disclosed, or it is a DH output of a disclosed scalar (or of the zero
\* point), or an HKDF or HMAC output all of whose inputs can be computed.
RECURSIVE Derivable(_)
Derivable(t) ==
    LET dhs(ikm) == {SubSeq(ikm, 3 * j + 1, 3 * j + 3) : j \in 0..((Len(ikm) \div 3) - 1)}
        input(x) == IF x[1] = TagDH THEN \A d \in dhs(x) : Derivable(d)
                    ELSE Derivable(x)
    IN  \/ t \in KnownKeys
        \/ t = NoSalt
        \/ /\ t[1] = TagDH /\ Len(t) = 3
           /\ t[2] \in KnownScalars \cup {ZeroPoint} \/ t[3] \in KnownScalars
        \/ /\ t[1] = TagHKDF
           /\ input(SubSeq(t, 5, 4 + t[3]))
           /\ input(SubSeq(t, 5 + t[3], 4 + t[3] + t[4]))
        \/ /\ t[1] = TagHMAC
           /\ Derivable(SubSeq(t, 4, Len(t)))

\* The calls of the disclosed user that handled an envelope before the
\* disclosure, and its sends after it.
Before == {n \in 1..snap.at : log[n].user = snap.user /\ log[n].out \in {"sent", "plain"}}
After == {n \in Sent : n > snap.at /\ log[n].user = snap.user}

\* C17: the message key of an envelope a user sent or received cannot be
\* computed from a later disclosure of that user's complete state together
\* with the envelopes on the wire.
C17_ForwardSecrecy ==
    snap.taken => \A n \in Before : ~Derivable(log[n].key)

\* The disclosed user sent log[n] after the disclosure and after receiving,
\* since the disclosure, an envelope of the same peer with a new ratchet
\* public.
Healed(n) ==
    /\ n \in After
    /\ \E r \in Recvs :
          /\ snap.at < r /\ r < n
          /\ log[r].user = snap.user /\ log[r].peer = log[n].peer
          /\ log[r].new_dhr

C21_RootAndChain ==
    [][Called =>
         LET call == log'[Len(log')]
             old  == sessions[call.user][call.peer]
             new  == sessions'[call.user][call.peer]
         IN  (call.had_session /\ call.out # "panic") =>
                 /\ call.op = "send" =>
                       /\ new.receiving_chain = old.receiving_chain
                       /\ new.dhr = old.dhr
                       /\ new.root_key # old.root_key
                             => new.sending_chain # old.sending_chain
                 /\ call.op = "recv" =>
                       /\ new.sending_chain = old.sending_chain
                       /\ new.root_key # old.root_key
                             => new.receiving_chain # old.receiving_chain]_vars

\* A user has sent on a session on which it had received, and has received,
\* without success, on a session on which it had sent.
C21_Witness ==
    /\ \E n \in Sent : \E m \in Recvs :
          m < n /\ log[m].user = log[n].user /\ log[m].peer = log[n].peer
    /\ \E n \in Recvs : \E m \in Sent :
          /\ m < n /\ log[m].user = log[n].user /\ log[m].peer = log[n].peer
          /\ log[n].out = "none"

SameSession(n, m) == log[n].user = log[m].user /\ log[n].peer = log[m].peer

\* The user of the send log[n] received, after its earlier send log[m], an
\* envelope of the peer that carried a new ratchet public.
NewDhrBetween(m, n) ==
    \E r \in Recvs : m < r /\ r < n /\ SameSession(r, n) /\ log[r].new_dhr

\* C23: an envelope a user sends after it received one with a new remote
\* ratchet public carries a ratchet_pub that none of the envelopes it sent
\* on the session before that receive carried, and two consecutive sends
\* with no receive in between carry the same ratchet_pub.
C23_RatchetPubFreshness ==
    \A n \in Sent : \A m \in Sent :
        (m < n /\ SameSession(m, n)) =>
            /\ NewDhrBetween(m, n)
                  => log[n].msg.ratchet_pub # log[m].msg.ratchet_pub
            /\ NextOnSession(m, n)
                  => log[n].msg.ratchet_pub = log[m].msg.ratchet_pub

\* A user sent, received a reply with a new ratchet public and sent again,
\* and a user sent twice in a row.
C23_Witness ==
    /\ \E n \in Sent : \E m \in Sent : m < n /\ SameSession(m, n) /\ NewDhrBetween(m, n)
    /\ \E n \in Sent : \E m \in Sent : NextOnSession(m, n)

\* The number of symmetric chain steps between the chain key a ratchet step
\* installed and the chain key the message key was taken from.
RECURSIVE ChainSteps(_)
ChainSteps(key) ==
    LET ck == SubSeq(key, 4, Len(key))
    IN  IF ck[1] = TagHMAC /\ ck[2] = CtxCk THEN 1 + ChainSteps(ck) ELSE 0

\* C24: the message key receive_message uses for an envelope with
\* message_index k lies exactly k symmetric chain steps after the chain key
\* installed for the envelope.
C24_KeyByIndex ==
    \A n \in Recvs :
        log[n].out # "panic" => ChainSteps(log[n].key) = log[n].msg.message_index

\* C25: when receive_message on a held session is handed an envelope with a
\* new ratchet public and fails to open it, the changes of the ratchet step
\* stay: DHr is the envelope's ratchet_pub, the root key is one step from
\* the old one with DH(old DHs, ratchet_pub), and the receiving chain is the
\* one derived in that step.
C25_NoRollback ==
    [][Called =>
         LET call == log'[Len(log')]
             old  == sessions[call.user][call.peer]
             new  == sessions'[call.user][call.peer]
             step == dh_ratchet(old.root_key,
                                diffie_hellman(old.dhs.private, call.msg.ratchet_pub))
         IN  (call.op = "recv" /\ call.had_session /\ call.new_dhr /\ call.out = "none")
                 => /\ new.dhr = call.msg.ratchet_pub
                    /\ new.root_key = step.rk
                    /\ new.receiving_chain.key = hmac(step.ck, CtxCk)
                    /\ new.receiving_chain # old.receiving_chain]_vars

\* A held session was handed an envelope with a ratchet public it had not
\* seen, and the envelope did not open.
C25_Witness ==
    \E n \in Recvs : log[n].had_session /\ log[n].new_dhr /\ log[n].out = "none"

\* ------------------------------------------------------- replays -------
\* In-order traffic in which an envelope already delivered may be handed to
\* its receiver once more.
NextReplay ==
    \/ \E u \in Pair, p \in Pair, t \in Plaintexts : SendQuiet(u, p, t)
    \/ \E i \in 1..Len(sent) : DeliverNext(i)
    \/ \E i \in 1..Len(sent) : Replay(i)

SpecReplay == Init /\ [][NextReplay]_vars

\* The send_message call that produced the envelope handed to log[n].
SendOf(n) == CHOOSE s \in Sends : log[s].env = log[n].env

\* C26: after receive_message has reported a decryption failure for a
\* replayed envelope, every envelope the peer sends afterwards, delivered
\* once and in order, is decrypted to its plaintext.
C26_FailureNotFatal ==
    \A n \in Recvs : \A f \in Recvs :
        ( /\ f < n /\ SameSession(f, n)
          /\ log[f].replay /\ log[f].out = "none"
          /\ ~log[n].replay /\ SendOf(n) > f )
            => Recovered(n)

\* The DH output that went into the last ratchet step behind a message key.
DhOf(key) == SubSeq(key, Len(key) - 2, Len(key))

\* C27: the call that creates a session by send_message leaves DHr equal to
\* the peer's signed-pre-key public and DHs a fresh pair, whose public the
\* envelope carries; the call that creates one by receive_message started
\* from the user's signed pre-key pair and leaves DHr equal to the
\* envelope's ratchet_pub; and the DH output of the responder's first
\* inbound step is that of the initiator's first outbound step.
C27_InitialRatchetKeys ==
    [][Called =>
         LET call == log'[Len(log')]
             new  == sessions'[call.user][call.peer]
         IN  (call.created /\ call.out # "panic") =>
                 /\ call.op = "send" =>
                       /\ new.dhr = SpkOf(call.peer)
                       /\ new.dhs = RatchetKey(nextKey + 1)
                       /\ new.last_dhs_private_used = None
                       /\ call.msg.ratchet_pub = new.dhs.public
                 /\ call.op = "recv" =>
                       /\ new.dhr = call.msg.ratchet_pub
                       /\ new.last_dhs_private_used = SpkOf(call.user)
                       /\ DhOf(call.key)
                             = diffie_hellman(SpkOf(call.user), call.msg.ratchet_pub)
                       /\ \A s \in Sends :
                             (log[s].env = call.env /\ log[s].created)
                                 => DhOf(call.key) = DhOf(log[s].key)]_vars

\* A session was created by send_message and its first envelope created the
\* peer's session, which opened it.
C27_Witness ==
    \E n \in Recvs : log[n].created /\ log[SendOf(n)].created /\ Recovered(n)

\* C28: no chain index increment overflows, and receive_message on a held
\* session returns a plaintext or a failure, whatever message_index the
\* envelope carries.
C28_NoAbortOnIndex ==
    \A n \in Recvs :
        /\ ~log[n].overflow
        /\ log[n].had_session => log[n].out \in {"plain", "none"}

\* C29: a send_message or receive_message of user u for peer p leaves every
\* session of u for another peer, and every session of every other user, as
\* it was, and adds no entry but the one of u for p.
C29_SessionsIndependent ==
    [][Called =>
         LET call == log'[Len(log')]
         IN  \A u \in Users :
                /\ \A q \in DOMAIN sessions[u] :
                      (u # call.user \/ q # call.peer)
                          => /\ q \in DOMAIN sessions'[u]
                             /\ sessions'[u][q] = sessions[u][q]
                /\ DOMAIN sessions'[u] \subseteq
                      DOMAIN sessions[u]
                          \cup (IF u = call.user THEN {call.peer} ELSE {})]_vars

\* A user that held a session for one peer made a call for another peer.
C29_Witness ==
    \E n \in 1..Len(log) : \E m \in 1..(n - 1) :
        /\ log[m].user = log[n].user /\ log[m].peer # log[n].peer
        /\ log[m].out # "panic" /\ log[n].out # "panic"
        /\ DOMAIN sessions[log[n].user] = {log[m].peer, log[n].peer}

\* C30: every session in a directory has DHr present, and every
\* send_message returns an envelope, the first send on a session created by
\* receive_message included.
C30_DhrPresent ==
    /\ \A u \in Users : \A p \in DOMAIN sessions[u] : sessions[u][p].dhr # None
    /\ \A n \in Sends : log[n].out = "sent"

\* A user whose session was created by receive_message has sent on it.
C30_Witness ==
    \E n \in Sent : \E m \in Recvs :
        /\ NextOnSession(m, n) /\ log[m].created

\* The root key a session was created with: what is left of its root key
\* when every ratchet step is undone.
RECURSIVE InitialRoot(_)
InitialRoot(rk) ==
    IF rk[2] = InfoRk THEN InitialRoot(SubSeq(rk, 5, 4 + rk[3])) ELSE rk

\* The call that created the session user u holds for peer p.
CreatedBy(u, p) ==
    CHOOSE n \in 1..Len(log) : log[n].user = u /\ log[n].peer = p /\ log[n].created

\* C31: whenever two users each hold a session for the other, one session
\* was created by send_message and the other by receive_message, and both
\* started from the same root key.
C31_OneHandshakePerPair ==
    \A u \in Pair : \A p \in Pair :
        (u # p /\ HasSession(u, p) /\ HasSession(p, u)) =>
            /\ InitialRoot(sessions[u][p].root_key) = InitialRoot(sessions[p][u].root_key)
            /\ log[CreatedBy(u, p)].op # log[CreatedBy(p, u)].op

\* C32: when receive_message creates a session from an envelope that names
\* a one-time pre-key of the user and the envelope does not open, the
\* session is in the directory afterwards and every later call of the user
\* for that peer uses it.
C32_SessionBeforeAuthentication ==
    \A n \in Recvs :
        (log[n].created /\ log[n].out = "none") =>
            /\ HasSession(log[n].user, log[n].peer)
            /\ \A m \in (n + 1)..Len(log) :
                  SameSession(m, n) => log[m].had_session /\ ~log[m].created

\* The first envelope of a peer named a one-time pre-key of the user and did
\* not open; a later envelope of that peer was opened on the session.
C32_Witness ==
    \E n \in Recvs : \E m \in Recvs :
        /\ log[n].created /\ log[n].out = "none"
        /\ log[n].msg.opk_used \in {opk[log[n].user][i] : i \in 1..Len(opk[log[n].user])}
        /\ n < m /\ SameSession(m, n) /\ Recovered(m)

\* C33: for a peer without session, receive_message handed an envelope that
\* lacks opk_used or ek_used reports an error and creates no session.
C33_HandshakeFieldsRequired ==
    \A n \in Recvs :
        ( /\ ~log[n].had_session
          /\ log[n].msg.opk_used = None \/ log[n].msg.ek_used = None )
            => log[n].out = "error" /\ ~log[n].created

=============================================================================
